---- MODULE Spec2Model ----
(***************************************************************************)
(* Order Execution Engine: the submission surface (OrderController), the   *)
(* Order Store (the orders table), the BullMQ queue `order-execution`      *)
(* with its retry/backoff options, and the worker whose handler            *)
(* processOrder drives one order through routing, building, submitted and  *)
(* confirmed, publishing one progress event per stage on `order-updates`.  *)
(*                                                                         *)
(* Every `await` of processOrder is one step of the handler.  The steps    *)
(* that talk to Redis (job.updateProgress) or to PostgreSQL (pool.query)   *)
(* may throw; redis.publish may throw inside broadcastProgress.  The mock  *)
(* venues only sleep and compute, so they never throw.                     *)
(*                                                                         *)
(* The Order Store is the orders table of PostgreSQL: it is the store the  *)
(* worker writes (updateOrderStatus of order.worker.ts) and the one the    *)
(* database-backed OrderService inserts into.                              *)
(*                                                                         *)
(* The queue and the worker are BullMQ objects; what the repository        *)
(* fixes is their configuration (attempts: 3, exponential backoff with     *)
(* delay 2000, concurrency 5).  Their behaviour under that configuration   *)
(* is BullMQ's: a fetched job is active and held by one processor call;    *)
(* when the call throws, attemptsMade is incremented and the job is        *)
(* delayed by 2^(attemptsMade-1) * delay while attemptsMade < attempts,    *)
(* and failed otherwise; a delayed job returns to the wait list when its   *)
(* delay has passed.  Time is not modelled: the delay is recorded and the  *)
(* promotion may happen at any later step.                                 *)
(*                                                                         *)
(* Spec follows one create-order request through the engine, with every    *)
(* pattern of throwing steps and throwing publishes over the three         *)
(* attempts of its job.                                                    *)
(*                                                                         *)
(* SpecStore is about the Order Store under two orders.  Its runs either   *)
(* follow two create-order requests through the controller and two worker  *)
(* slots, no step throwing, or call the OrderService directly.  The        *)
(* repository holds two variants of the service, the in-memory one (a Map) *)
(* and the database one (the orders table); a run of direct calls links    *)
(* one of them.  The clock advances between direct calls only.             *)
(*                                                                         *)
(* SpecGateway is about the WebSocketGateway and the Redis channel: the    *)
(* SUBSCRIBE of the gateway, publishes by the worker's broadcastProgress,  *)
(* bus messages in flight, connections that open, close and fail, and the  *)
(* broadcast to the client Set.  Redis pub/sub keeps no message: what is   *)
(* published while no subscription exists is gone.  A send to an open      *)
(* handle may throw inside broadcast; the send of the acknowledgment, to a *)
(* socket whose handshake has just completed, does not.  The shutdown of   *)
(* the gateway is not modelled.                                            *)
(*                                                                         *)
(* SpecFair is Spec under fair scheduling of the worker and the queue, for *)
(* the properties that say something eventually happens.                   *)
(*                                                                         *)
(* SpecQuery adds the query surface (OrderController.getOrder) to the run  *)
(* of one request, under either variant of the service: the controller     *)
(* creates and reads the order in the store of the variant it is linked    *)
(* with, the worker always writes the orders table.  In Spec, SpecFair,    *)
(* SpecPool and the request runs of SpecStore the service is the database  *)
(* variant, each call of it having resolved before the controller goes on. *)
(*                                                                         *)
(* SpecPool is about the Worker Pool under six accepted orders, one more   *)
(* than it has handler slots; a handler is followed from its first         *)
(* statement to its return in one step.                                    *)
(*                                                                         *)
(* History kept for the properties: statusLog (the statuses the table has  *)
(* held), and in a job firstFailure and sameStage (where the first failed  *)
(* attempt threw, and whether every later one threw at the same stage),    *)
(* delays (the backoff delays computed so far); in a handler calls and     *)
(* sent (the events handed to broadcastProgress in this attempt, and       *)
(* those redis.publish accepted) and firstQuote (the venue whose quote     *)
(* request responded first); in a job written (the status and fields of    *)
(* the UPDATE statements the worker has issued for its order).             *)
(***************************************************************************)
EXTENDS Integers, Sequences, FiniteSets, TLC

(***************************************************************************)
(* Bounds of the model.                                                    *)
(***************************************************************************)
MaxOutput == 2        \* quote outputs are drawn from 1..MaxOutput
MaxHash == 2          \* transaction hashes are drawn from 1..MaxHash
MaxTime == 1          \* the clock reads 0..MaxTime
MaxOrders == 2        \* orders created through direct calls of the service
MaxHandles == 2       \* WebSocket connections the gateway accepts
MaxEvents == 2        \* progress events published on the bus

(***************************************************************************)
(* Program constants.                                                      *)
(***************************************************************************)
Attempts == 3         \* defaultJobOptions.attempts
BaseDelay == 2000     \* defaultJobOptions.backoff.delay
Concurrency == 5      \* orderWorker concurrency

VARIABLES
    orders,       \* the orders table: order id -> row
    replies,      \* per create-order request, its body and the HTTP code answered
    jobs,         \* the queue's jobs, indexed by job id
    slots,        \* the worker's handler slots
    statusLog,    \* per order, the statuses the engine has written, in order
    incoming,     \* per request ordinal, the bodies that request may carry
    now,          \* the clock
    service,      \* the OrderService the build links: "memory" or "database"
    ordersStore,  \* the Map of the in-memory OrderService: order id -> Order
    result,       \* what the last direct call of the service returned
    subscription, \* the gateway's subscription to `order-updates`
    channel,      \* the bus messages in flight to the gateway's subscriber
    clients,      \* the gateway's Set of handles, in insertion order
    sockets,      \* per handle: readyState, the messages it was sent, history
    published,    \* the number of events redis.publish has resolved for
    routed,       \* of these, the ones Redis had the gateway's subscription for
    arrived     \* the events the gateway's message handler has received

gatewayVars == <<subscription, channel, clients, sockets, published, routed, arrived>>

\* What no action of the controller, the queue or the worker changes.
notEngine == <<incoming, now, service, ordersStore, result, gatewayVars>>

\* What no action of the gateway and the bus changes.
notGateway == <<orders, replies, jobs, slots, statusLog,
                incoming, now, service, ordersStore, result>>

vars == <<orders, replies, jobs, slots, statusLog, notEngine>>

OrderStatus == {"pending", "routing", "building", "submitted", "confirmed"}

Stages == <<"pending", "routing", "building", "submitted", "confirmed">>

NULL == "NULL"        \* a NULL text column / an undefined string field
NoNumber == 0         \* a NULL numeric column / an undefined numeric field

\* The create-order requests the submission surface receives, by ordinal.
RequestNos == {1}

\* The same for the runs that follow two requests.
PairRequestNos == {1, 2}

\* In the runs that call the service directly, the controller gets no request.
NoRequests == [n \in {} |-> {}]

Outputs == 1..MaxOutput
TxHashes == 1..MaxHash
SlotsOneMore == 1..(Concurrency + 1)

Slots == 1..Concurrency

(***************************************************************************)
(* Create-order request bodies: one valid body and the invalid shapes the  *)
(* controller tests for.                                                   *)
(***************************************************************************)
Requests ==
    { [fromToken |-> "SOL", toToken |-> "USDC", amount |-> 1],
      [fromToken |-> "SOL", toToken |-> "USDC", amount |-> 0],
      [fromToken |-> "SOL", toToken |-> "USDC", amount |-> -1],
      [fromToken |-> "",    toToken |-> "USDC", amount |-> 1],
      [fromToken |-> "SOL", toToken |-> "",     amount |-> 1],
      [fromToken |-> NULL,  toToken |-> "USDC", amount |-> 1],
      [fromToken |-> "SOL", toToken |-> NULL,   amount |-> 1] }

\* A validation that tests the amount for presence only.
IsInvalidPresenceOnly(body) ==
    \/ body.fromToken \in {NULL, ""}
    \/ body.toToken \in {NULL, ""}
    \/ body.amount = NoNumber

\* !fromToken || !toToken || !amount || amount <= 0 : a missing string and
\* the empty string are falsy, a missing amount and 0 are falsy.
IsInvalid(body) ==
    \/ body.fromToken \in {NULL, ""}
    \/ body.toToken \in {NULL, ""}
    \/ body.amount = NoNumber
    \/ body.amount <= 0

\* The second request of the runs that follow two requests carries another
\* valid body, or one of the invalid ones.
SecondRequests ==
    {body \in Requests : IsInvalid(body)}
        \cup { [fromToken |-> "USDC", toToken |-> "SOL", amount |-> 2] }

(***************************************************************************)
(* Order Store.                                                            *)
(***************************************************************************)
\* An id generator that hands out the same id again.
uuidv4Repeats(tbl) == 1

\* const orderId = uuidv4() : an id no order of the store has.  Orders are
\* never deleted, so the ids in use are 1..n.
uuidv4(tbl) == Cardinality(DOMAIN tbl) + 1

\* INSERT INTO orders (...) VALUES (..., 'pending', now, now) with
\* now = new Date().  Ids are fresh, so the insert meets no existing key.
createOrder(tbl, orderId, body, at) ==
    (orderId :> [fromToken       |-> body.fromToken,
                 toToken         |-> body.toToken,
                 amount          |-> body.amount,
                 status          |-> "pending",
                 selectedDex     |-> NULL,
                 outputAmount    |-> NoNumber,
                 transactionHash |-> NoNumber,
                 createdAt       |-> at,
                 updatedAt       |-> at]) @@ tbl

NoUpdates == [selectedDex |-> NULL, outputAmount |-> NoNumber, transactionHash |-> NoNumber]

\* CREATE TRIGGER update_orders_updated_at BEFORE UPDATE ON orders:
\* NEW.updated_at = CURRENT_TIMESTAMP
update_updated_at_column(row, at) == [row EXCEPT !.updatedAt = at]

\* The columns the statement sets in one row.
SetColumns(row, status, updates) ==
    [row EXCEPT !.status = status,
                !.selectedDex =
                    IF updates.selectedDex # NULL THEN updates.selectedDex ELSE @,
                !.outputAmount =
                    IF updates.outputAmount # NoNumber THEN updates.outputAmount ELSE @,
                !.transactionHash =
                    IF updates.transactionHash # NoNumber
                    THEN updates.transactionHash ELSE @]

\* An UPDATE whose WHERE clause is missing: it sets every row.
updateOrderStatusEveryRow(tbl, orderId, status, updates, at) ==
    [o \in DOMAIN tbl |->
        update_updated_at_column(SetColumns(tbl[o], status, updates), at)]

\* UPDATE orders SET status = $1 [, selected_dex] [, output_amount]
\* [, transaction_hash] WHERE order_id = $n : a row that does not exist is
\* not an error, the statement then updates nothing.
updateOrderStatus(tbl, orderId, status, updates, at) ==
    IF orderId \notin DOMAIN tbl
    THEN tbl
    ELSE [tbl EXCEPT ![orderId] =
            update_updated_at_column(SetColumns(@, status, updates), at)]

(***************************************************************************)
(* OrderService, database variant: what its calls return.                  *)
(***************************************************************************)
NotFound == [found |-> FALSE]
Found(order) == [found |-> TRUE, order |-> order]

\* The Order object built from a row.  The numeric columns come back as
\* decimal strings and go through parseFloat, which gives back the number
\* that was stored (amounts and outputs have at most 8 decimals); a NULL
\* column and the empty string become undefined.
RowToOrder(orderId, row) ==
    [orderId         |-> orderId,
     fromToken       |-> row.fromToken,
     toToken         |-> row.toToken,
     amount          |-> row.amount,
     status          |-> row.status,
     createdAt       |-> row.createdAt,
     updatedAt       |-> row.updatedAt,
     selectedDex     |-> IF row.selectedDex = "" THEN NULL ELSE row.selectedDex,
     outputAmount    |-> row.outputAmount,
     transactionHash |-> row.transactionHash]

\* SELECT * FROM orders WHERE order_id = $1 : null when no row matches.
getOrder(tbl, orderId) ==
    IF orderId \in DOMAIN tbl THEN Found(RowToOrder(orderId, tbl[orderId])) ELSE NotFound

\* The value of a key of an updates object, undef when the key is absent.
Field(updates, key, undef) ==
    IF key \in DOMAIN updates THEN updates[key] ELSE undef

\* The three optional keys of an updates object, undefined ones included.
OptionalFields(updates) ==
    [selectedDex     |-> Field(updates, "selectedDex", NULL),
     outputAmount    |-> Field(updates, "outputAmount", NoNumber),
     transactionHash |-> Field(updates, "transactionHash", NoNumber)]

\* UPDATE orders SET ... WHERE order_id = $n RETURNING * : the same
\* statement as the worker's; null when no row matches.
DbUpdateOrderStatus(tbl, orderId, status, updates, at) ==
    updateOrderStatus(tbl, orderId, status, OptionalFields(updates), at)

(***************************************************************************)
(* OrderService, in-memory variant: const ordersStore = new Map().         *)
(***************************************************************************)
\* createOrder: ordersStore.set(orderId, order); the optional fields of a
\* new Order are absent.
MemCreateOrder(store, orderId, body, at) ==
    (orderId :> [orderId         |-> orderId,
                 fromToken       |-> body.fromToken,
                 toToken         |-> body.toToken,
                 amount          |-> body.amount,
                 status          |-> "pending",
                 createdAt       |-> at,
                 updatedAt       |-> at,
                 selectedDex     |-> NULL,
                 outputAmount    |-> NoNumber,
                 transactionHash |-> NoNumber]) @@ store

\* getOrder: ordersStore.get(orderId), undefined for an unknown id.
MemGetOrder(store, orderId) ==
    IF orderId \in DOMAIN store THEN Found(store[orderId]) ELSE NotFound

\* An update that creates the entry it does not find.
MemUpdateOrderStatusUpsert(store, orderId, status, updates, at) ==
    (orderId :> [orderId         |-> orderId,
                 fromToken       |-> NULL,
                 toToken         |-> NULL,
                 amount          |-> NoNumber,
                 status          |-> status,
                 createdAt       |-> at,
                 updatedAt       |-> at,
                 selectedDex     |-> NULL,
                 outputAmount    |-> NoNumber,
                 transactionHash |-> NoNumber]) @@ store

\* updateOrderStatus: {...order, ...updates, status, updatedAt: new Date()}
\* stored under orderId; every key of updates overwrites, a key whose
\* value is undefined included.  An unknown id is logged and changes nothing.
MemUpdateOrderStatus(store, orderId, status, updates, at) ==
    IF orderId \notin DOMAIN store
    THEN store
    ELSE [store EXCEPT ![orderId] =
            [key \in DOMAIN @ |->
                CASE key = "status"         -> status
                  [] key = "updatedAt"      -> at
                  [] key \in DOMAIN updates -> updates[key]
                  [] OTHER                  -> @[key]]]

\* No direct call of the service has returned yet.
NoArguments == [key \in {} |-> NULL]
NoResult == [op |-> "none", orderId |-> 0, updates |-> NoArguments, ret |-> NotFound]

\* The statuses the table has held for each order, one entry per change.
LogStatus(log, tbl) ==
    [o \in DOMAIN tbl |->
        IF o \notin DOMAIN log THEN <<tbl[o].status>>
        ELSE IF log[o][Len(log[o])] # tbl[o].status
             THEN Append(log[o], tbl[o].status)
             ELSE log[o]]

(***************************************************************************)
(* Job Queue (BullMQ queue `order-execution`).                             *)
(***************************************************************************)
\* What the first failed attempt of a job left behind: the stage whose step
\* threw and the status the table held for the order when it threw.
NoFailure == [stage |-> "none", status |-> "none"]

\* What the worker has asked the store to hold for the order of a job: the
\* status and the optional fields of the UPDATE statements it has issued.
NoWrite ==
    [status |-> "none", selectedDex |-> NULL, outputAmount |-> NoNumber,
     transactionHash |-> NoNumber]

NewJob(data) ==
    [data            |-> data,
     written         |-> NoWrite,
     state           |-> "waiting",
     attemptsStarted |-> 0,
     attemptsMade    |-> 0,
     progress        |-> 0,
     delay           |-> 0,
     delays          |-> <<>>,
     failedReason    |-> "none",
     firstFailure    |-> NoFailure,
     sameStage       |-> TRUE]

\* The delay of a backoff of type 'fixed'.
BackoffDelayFixed(attemptsMade) ==
    BaseDelay

\* The exponential backoff of BullMQ: round(2^(attemptsMade - 1) * delay).
BackoffDelay(attemptsMade) ==
    (2 ^ (attemptsMade - 1)) * BaseDelay

\* An off-by-one retry test.
RetryAllowedOnceMore(attemptsMade) ==
    attemptsMade <= Attempts

\* A failed job is retried while attemptsMade < opts.attempts.
RetryAllowed(attemptsMade) ==
    attemptsMade < Attempts

\* A fetch that left the job on the wait list.
FetchedStateStillWaiting == "waiting"

\* The state a job is in while a handler holds it.
FetchedState == "active"

\* A queue whose delayed jobs are never moved back to the wait list.
IsPromotableNever(state) ==
    FALSE

\* A promotion that also picked up failed jobs.
IsPromotableOrFailed(state) ==
    state \in {"delayed", "failed"}

\* Only a delayed job is moved back to the wait list when its delay expires.
IsPromotable(state) ==
    state = "delayed"

(***************************************************************************)
(* processOrder: the handler's positions, one per await.                   *)
(***************************************************************************)
\* A last stage that reports progress 100 after its write.
PcsProgressLast ==
       << "progress20",  "store_routing",   "pub_routing",   "quotes",
          "progress40",  "store_building",  "pub_building",
          "progress60",  "swap", "store_submitted", "pub_submitted",
          "store_confirmed", "progress100", "pub_confirmed", "done" >>

\* Stages that publish their event before they write the store.
PcsPublishFirst ==
       << "progress20",  "pub_routing",   "store_routing",   "quotes",
          "progress40",  "pub_building",  "store_building",
          "progress60",  "swap", "pub_submitted", "store_submitted",
          "progress100", "pub_confirmed", "store_confirmed", "done" >>

Pcs == << "progress20",  "store_routing",   "pub_routing",   "quotes",
          "progress40",  "store_building",  "pub_building",
          "progress60",  "swap", "store_submitted", "pub_submitted",
          "progress100", "store_confirmed", "pub_confirmed", "done" >>

PcIndex(pc) == CHOOSE i \in 1..Len(Pcs) : Pcs[i] = pc

\* The statement that follows the await at pc when it returns normally.
NextPc(pc) == Pcs[PcIndex(pc) + 1]

ProgressPcs == {"progress20", "progress40", "progress60", "progress100"}
StorePcs == {"store_routing", "store_building", "store_submitted", "store_confirmed"}
PubPcs == {"pub_routing", "pub_building", "pub_submitted", "pub_confirmed"}

\* job.updateProgress(n)
ProgressAt(pc) ==
    CASE pc = "progress20"  -> 20
      [] pc = "progress40"  -> 40
      [] pc = "progress60"  -> 60
      [] pc = "progress100" -> 100

\* A last stage that writes and publishes submitted once more.
StatusAtNeverConfirmed(pc) ==
    CASE pc \in {"store_routing", "pub_routing"}     -> "routing"
      [] pc \in {"store_building", "pub_building"}   -> "building"
      [] pc \in {"store_submitted", "pub_submitted"} -> "submitted"
      [] pc \in {"store_confirmed", "pub_confirmed"} -> "submitted"

\* The status a stage writes and publishes.
StatusAt(pc) ==
    CASE pc \in {"store_routing", "pub_routing"}     -> "routing"
      [] pc \in {"store_building", "pub_building"}   -> "building"
      [] pc \in {"store_submitted", "pub_submitted"} -> "submitted"
      [] pc \in {"store_confirmed", "pub_confirmed"} -> "confirmed"

\* The stage a step of the try block belongs to.
StageOf(pc) ==
    CASE pc \in {"progress20", "store_routing", "pub_routing", "quotes"} -> "routing"
      [] pc \in {"progress40", "store_building", "pub_building"}         -> "building"
      [] pc \in {"progress60", "swap", "store_submitted", "pub_submitted"} -> "submitted"
      [] pc \in {"progress100", "store_confirmed", "pub_confirmed"}      -> "confirmed"

\* A stage table with the progress of building and submitted exchanged.
StageProgressExchanged(status) ==
    CASE status = "routing"   -> 20
      [] status = "building"  -> 60
      [] status = "submitted" -> 40
      [] status = "confirmed" -> 100

\* The progress value of a stage's event.
StageProgress(status) ==
    CASE status = "routing"   -> 20
      [] status = "building"  -> 40
      [] status = "submitted" -> 60
      [] status = "confirmed" -> 100

NoQuote == [dex |-> NULL, output |-> NoNumber]

Idle ==
    [job          |-> 0,
     pc           |-> "idle",
     raydiumQuote |-> NoQuote,
     meteoraQuote |-> NoQuote,
     bestQuote    |-> NoQuote,
     firstQuote   |-> NULL,
     txHash       |-> NoNumber,
     error        |-> "none",
     calls        |-> <<>>,
     sent         |-> <<>>]

\* A comparison that prefers the smaller output.
SelectBestInverted(raydiumQuote, meteoraQuote) ==
    IF meteoraQuote.output < raydiumQuote.output THEN meteoraQuote ELSE raydiumQuote

\* A comparison that gives a tie to meteora.
SelectBestTieToMeteora(raydiumQuote, meteoraQuote) ==
    IF meteoraQuote.output >= raydiumQuote.output THEN meteoraQuote ELSE raydiumQuote

\* const bestQuote = meteoraQuote.output > raydiumQuote.output ? meteoraQuote : raydiumQuote
SelectBest(raydiumQuote, meteoraQuote) ==
    IF meteoraQuote.output > raydiumQuote.output THEN meteoraQuote ELSE raydiumQuote

\* Stage writes that set the status only.
UpdatesAtStatusOnly(pc, h) ==
    NoUpdates

\* The updates object a stage passes to updateOrderStatus.
UpdatesAt(pc, h) ==
    CASE pc = "store_building" ->
            [selectedDex     |-> h.bestQuote.dex,
             outputAmount    |-> h.bestQuote.output,
             transactionHash |-> NoNumber]
      [] pc = "store_submitted" ->
            [selectedDex     |-> NULL,
             outputAmount    |-> NoNumber,
             transactionHash |-> h.txHash]
      [] OTHER -> NoUpdates

\* Events that report the raydium quote and no hash, whatever was selected.
StageEventOfRaydium(orderId, status, h) ==
    [orderId  |-> orderId,
     status   |-> status,
     progress |-> StageProgress(status),
     data     |-> CASE status = "building" ->
                        [selectedDex     |-> h.raydiumQuote.dex,
                         outputAmount    |-> h.raydiumQuote.output,
                         transactionHash |-> NoNumber]
                    [] OTHER -> NoUpdates]

\* The OrderProgress a stage hands to broadcastProgress.
StageEvent(orderId, status, h) ==
    [orderId  |-> orderId,
     status   |-> status,
     progress |-> StageProgress(status),
     data     |-> CASE status = "building" ->
                        [selectedDex     |-> h.bestQuote.dex,
                         outputAmount    |-> h.bestQuote.output,
                         transactionHash |-> NoNumber]
                    [] status = "submitted" ->
                        [selectedDex     |-> NULL,
                         outputAmount    |-> NoNumber,
                         transactionHash |-> h.txHash]
                    [] OTHER -> NoUpdates]

\* The OrderProgress the catch block hands to broadcastProgress.
FailureEvent(orderId) ==
    [orderId |-> orderId, status |-> "pending", progress |-> 0, data |-> NoUpdates]

\* broadcastProgress without its try/catch.
BroadcastPropagates == FALSE

\* broadcastProgress wraps redis.publish in try/catch: a publish that throws
\* is logged and the caller continues.
BroadcastCatches == TRUE

\* A catch block that marked the order failed.
CatchStoreMarksFailed(tbl, orderId) ==
    updateOrderStatus(tbl, orderId, "failed", NoUpdates, now)

\* A catch block that put the order back to pending.
CatchStoreRegresses(tbl, orderId) ==
    updateOrderStatus(tbl, orderId, "pending", NoUpdates, now)

\* The catch block of processOrder performs no write to the orders table.
CatchStore(tbl, orderId) == tbl

\* A catch block that swallowed the error would let the handler return.
CatchExitSwallows == "done"

\* The catch block ends with `throw error`.
CatchExit == "throw"

\* The handler a slot runs for job j.
\* Promise.race in the place of Promise.all: one response is enough.
AnyResponded(h) ==
    h.raydiumQuote # NoQuote \/ h.meteoraQuote # NoQuote

\* Promise.all([getRaydiumQuote, getMeteoraQuote]) resolves when both have.
AllResponded(h) ==
    h.raydiumQuote # NoQuote /\ h.meteoraQuote # NoQuote

\* A handler that takes up a retried job at the step that failed.
FirstPcResumes(job) ==
    IF job.failedReason = "none" THEN Pcs[1] ELSE job.failedReason

\* processOrder is entered at its first statement in every attempt: it
\* reads job.data only, and the job carries no position of an earlier one.
FirstPc(job) ==
    Pcs[1]

Handler(s) == slots[s]
Busy(s) == slots[s].pc # "idle"
JobOf(s) == jobs[slots[s].job]
OrderOf(s) == jobs[slots[s].job].data.orderId

(***************************************************************************)
(* WebSocketGateway and the bus (Redis channel `order-updates`).           *)
(***************************************************************************)
Handles == 1..MaxHandles

\* The statuses of the events published in the runs of the gateway.
BusStatuses == {"routing", "confirmed"}

\* A handle the gateway has not been handed yet, and one it has.
NoSocket ==
    [readyState      |-> "connecting",
     received        |-> <<>>,
     publishedBefore |-> 0,
     arrivedBefore |-> 0,
     failedOn        |-> 0]

\* A test that takes CONNECTING for OPEN.
IsOpenMistaken(readyState) == readyState = "connecting"

\* client.readyState === 1 (WebSocket.OPEN)
IsOpen(readyState) == readyState = "open"

\* The OrderProgress of the n-th publish.  seq is not a field of the
\* payload: it numbers the publishes, so that two events can be told apart.
ProgressUpdate(n, status) ==
    [seq      |-> n,
     orderId  |-> 1,
     status   |-> status,
     progress |-> StageProgress(status)]

\* JSON.stringify / JSON.parse: the text of a value, and the value of a text.
\* An OrderProgress holds strings and numbers only, which both preserve.
JSONstringify(value) == [text |-> value]
JSONparse(text) == text.text

\* {type: 'connected', message: '...'}
Connected == [type |-> "connected"]

\* {type: 'order-update', ...message}
OrderUpdate(message) == message @@ [type |-> "order-update"]

\* A connection handler that sends no acknowledgment.
OnConnectSendsNothing(log) == <<>>

\* A connection handler that replays the events the gateway has seen.
OnConnectSendsHistory(log) ==
    <<Connected>> \o [i \in 1..Len(log) |-> OrderUpdate(log[i])]

\* What the /ws handler sends to a new handle: the acknowledgment and
\* nothing else; the gateway keeps no history.
OnConnectSends(log) == <<Connected>>

\* A forEach callback without try/catch: the first send that throws ends
\* the broadcast.
SendPropagates == FALSE

\* The callback of clients.forEach wraps its body in try/catch.
SendCatches == TRUE

\* A bus that hands over the newest message first.
DeliveredNewestFirst(inFlight) ==
    inFlight[Len(inFlight)]

\* The message the 'message' handler is called with next: Redis sends the
\* messages of a channel down the subscriber's one connection in the order
\* of the publishes, and the client emits them in the order received.
Delivered(inFlight) ==
    Head(inFlight)

Position(set, c) == CHOOSE i \in 1..Len(set) : set[i] = c
Members(set) == {set[i] : i \in 1..Len(set)}

\* A pass over an array by index, entries being spliced out on the way:
\* the entry that follows a deleted one is skipped.
VisitedSkipsAfterDelete(set, socks, throwing) ==
    {set[i] : i \in {k \in 1..Len(set) :
                        \/ k = 1
                        \/ /\ IsOpen(socks[set[k - 1]].readyState)
                           /\ set[k - 1] \notin throwing}}

\* Set.prototype.forEach calls the callback once for every entry of the
\* Set, in insertion order; deleting the entry being visited (or one
\* visited before) does not make it skip an entry.  Nothing is added
\* during a pass: the callback adds nothing and no other handler runs
\* before broadcast returns.
Visited(set, socks, throwing) ==
    Members(set)

\* broadcast(message): clients.forEach in insertion order.  throwing is the
\* set of open handles whose send throws.  A handle is reached when the
\* pass visits it, unless an earlier throw escaped the callback.
Reached(set, socks, throwing, c) ==
    /\ c \in Visited(set, socks, throwing)
    /\ \/ SendCatches
       \/ \A i \in 1..(Position(set, c) - 1) :
               ~(IsOpen(socks[set[i]].readyState) /\ set[i] \in throwing)

\* client.send(data) returned.
IsSent(set, socks, throwing, c) ==
    /\ c \in Members(set)
    /\ Reached(set, socks, throwing, c)
    /\ IsOpen(socks[c].readyState)
    /\ c \notin throwing

\* client.send(data) threw.
IsThrown(set, socks, throwing, c) ==
    /\ c \in Members(set)
    /\ Reached(set, socks, throwing, c)
    /\ IsOpen(socks[c].readyState)
    /\ c \in throwing

\* this.clients.delete(client): the handle is not open, or its send threw
\* and the callback caught it.
IsDeleted(set, socks, throwing, c) ==
    /\ c \in Members(set)
    /\ Reached(set, socks, throwing, c)
    /\ \/ ~IsOpen(socks[c].readyState)
       \/ c \in throwing /\ SendCatches

InitGateway ==
    /\ subscription = "subscribing"
    /\ channel = <<>>
    /\ clients = <<>>
    /\ sockets = [c \in Handles |-> NoSocket]
    /\ published = 0
    /\ routed = {}
    /\ arrived = <<>>

Init ==
    /\ orders = <<>>
    /\ replies = <<>>
    /\ jobs = <<>>
    /\ slots = [s \in Slots |-> Idle]
    /\ statusLog = <<>>
    /\ incoming = [n \in RequestNos |-> Requests]
    /\ now = 0
    /\ service = "database"
    /\ ordersStore = <<>>
    /\ result = NoResult
    /\ InitGateway

(***************************************************************************)
(* OrderController.createOrder                                             *)
(***************************************************************************)
\* The request the controller handles next.
RequestNo == Len(replies) + 1

Reply(body, code) == [body |-> body, code |-> code]

\* orderQueue.add('execute-order', {orderId: order.orderId, fromToken, toToken, amount})
JobData(orderId, body) ==
    [orderId   |-> orderId,
     fromToken |-> body.fromToken,
     toToken   |-> body.toToken,
     amount    |-> body.amount]

\* 400: the body fails validation; nothing is created.
CreateOrderRejected(body) ==
    /\ IsInvalid(body)
    /\ replies' = Append(replies, Reply(body, 400))
    /\ UNCHANGED <<orders, jobs, slots, statusLog, notEngine>>

\* 500: orderService.createOrder throws; nothing is created.
CreateOrderStoreFails(body) ==
    /\ ~IsInvalid(body)
    /\ replies' = Append(replies, Reply(body, 500))
    /\ UNCHANGED <<orders, jobs, slots, statusLog, notEngine>>

\* const order = orderService.createOrder({fromToken, toToken, amount}): the
\* order goes to the store of the variant of the service the build links.
ControllerCreates(body) ==
    IF service = "memory"
    THEN /\ ordersStore' = MemCreateOrder(ordersStore, uuidv4(ordersStore), body, now)
         /\ UNCHANGED <<orders, statusLog>>
    ELSE /\ orders' = createOrder(orders, uuidv4(orders), body, now)
         /\ statusLog' = LogStatus(statusLog, orders')
         /\ UNCHANGED ordersStore

\* The id of the order ControllerCreates makes.
CreatedId == IF service = "memory" THEN uuidv4(ordersStore) ELSE uuidv4(orders)

\* 500: the order is created and orderQueue.add throws.
CreateOrderEnqueueFails(body) ==
    /\ ~IsInvalid(body)
    /\ ControllerCreates(body)
    /\ replies' = Append(replies, Reply(body, 500))
    /\ UNCHANGED <<jobs, slots, incoming, now, service, result, gatewayVars>>

\* 201: the order is created and one job is added to the queue.
CreateOrderAccepted(body) ==
    /\ ~IsInvalid(body)
    /\ ControllerCreates(body)
    /\ jobs' = Append(jobs, NewJob(JobData(CreatedId, body)))
    /\ replies' = Append(replies, Reply(body, 201))
    /\ UNCHANGED <<slots, incoming, now, service, result, gatewayVars>>

CreateOrder ==
    /\ RequestNo \in DOMAIN incoming
    /\ \E body \in incoming[RequestNo] :
        \/ CreateOrderRejected(body)
        \/ CreateOrderStoreFails(body)
        \/ CreateOrderEnqueueFails(body)
        \/ CreateOrderAccepted(body)

(***************************************************************************)
(* orderWorker: BullMQ hands a waiting job to a free handler slot.  The    *)
(* slots are interchangeable, so the job goes to the first free one.  The  *)
(* wait list is first-in first-out; no job comes back to it while another  *)
(* waits, so its head is the waiting job that was added first.             *)
(***************************************************************************)
Fetch(s) ==
    /\ ~Busy(s)
    /\ \A t \in Slots : t < s => Busy(t)
    /\ \E j \in 1..Len(jobs) :
        /\ jobs[j].state = "waiting"
        /\ \A i \in 1..(j - 1) : jobs[i].state # "waiting"
        /\ jobs' = [jobs EXCEPT ![j].state = FetchedState,
                                ![j].attemptsStarted = @ + 1]
        /\ slots' = [slots EXCEPT ![s] = [Idle EXCEPT !.job = j, !.pc = FirstPc(jobs[j])]]
    /\ UNCHANGED <<orders, replies, statusLog, notEngine>>

(***************************************************************************)
(* processOrder, try block.                                                *)
(***************************************************************************)
\* await job.updateProgress(n)
UpdateProgress(s) ==
    /\ Handler(s).pc \in ProgressPcs
    /\ jobs' = [jobs EXCEPT ![Handler(s).job].progress = ProgressAt(Handler(s).pc)]
    /\ slots' = [slots EXCEPT ![s].pc = NextPc(@)]
    /\ UNCHANGED <<orders, replies, statusLog, notEngine>>

\* await updateOrderStatus(orderId, status, updates)
StoreUpdate(s) ==
    /\ Handler(s).pc \in StorePcs
    /\ orders' = updateOrderStatus(orders, OrderOf(s), StatusAt(Handler(s).pc),
                                   UpdatesAt(Handler(s).pc, Handler(s)), now)
    /\ statusLog' = LogStatus(statusLog, orders')
    /\ jobs' = [jobs EXCEPT ![Handler(s).job].written =
                    SetColumns(@, StatusAt(Handler(s).pc),
                               UpdatesAt(Handler(s).pc, Handler(s)))]
    /\ slots' = [slots EXCEPT ![s].pc = NextPc(@)]
    /\ UNCHANGED <<replies, notEngine>>

\* job.updateProgress or pool.query throws: control passes to the catch block.
StepThrows(s) ==
    /\ Handler(s).pc \in ProgressPcs \cup StorePcs
    /\ slots' = [slots EXCEPT ![s].error = Handler(s).pc, ![s].pc = "catch"]
    /\ jobs' = [jobs EXCEPT
            ![Handler(s).job].firstFailure =
                IF @ = NoFailure
                THEN [stage  |-> StageOf(Handler(s).pc),
                      status |-> orders[OrderOf(s)].status]
                ELSE @,
            ![Handler(s).job].sameStage =
                /\ @
                /\ JobOf(s).firstFailure # NoFailure
                      => JobOf(s).firstFailure.stage = StageOf(Handler(s).pc)]
    /\ UNCHANGED <<orders, replies, statusLog, notEngine>>

\* await broadcastProgress(event), redis.publish resolves.
Publish(s) ==
    /\ Handler(s).pc \in PubPcs
    /\ LET e == StageEvent(OrderOf(s), StatusAt(Handler(s).pc), Handler(s))
       IN  slots' = [slots EXCEPT ![s].calls = Append(@, e),
                                  ![s].sent = Append(@, e),
                                  ![s].pc = NextPc(@)]
    /\ UNCHANGED <<orders, replies, jobs, statusLog, notEngine>>

\* await broadcastProgress(event), redis.publish throws.
PublishThrows(s) ==
    /\ Handler(s).pc \in PubPcs
    /\ LET e == StageEvent(OrderOf(s), StatusAt(Handler(s).pc), Handler(s))
       IN  slots' = [slots EXCEPT
                        ![s].calls = Append(@, e),
                        ![s].error = IF BroadcastCatches THEN @ ELSE Handler(s).pc,
                        ![s].pc = IF BroadcastCatches THEN NextPc(@) ELSE "catch"]
    /\ UNCHANGED <<orders, replies, jobs, statusLog, notEngine>>

\* mockDexRouter.getRaydiumQuote responds.
GetRaydiumQuote(s) ==
    /\ Handler(s).pc = "quotes"
    /\ Handler(s).raydiumQuote = NoQuote
    /\ \E out \in Outputs :
        slots' = [slots EXCEPT
                    ![s].raydiumQuote = [dex |-> "raydium", output |-> out],
                    ![s].firstQuote = IF @ = NULL THEN "raydium" ELSE @]
    /\ UNCHANGED <<orders, replies, jobs, statusLog, notEngine>>

\* mockDexRouter.getMeteoraQuote responds.
GetMeteoraQuote(s) ==
    /\ Handler(s).pc = "quotes"
    /\ Handler(s).meteoraQuote = NoQuote
    /\ \E out \in Outputs :
        slots' = [slots EXCEPT
                    ![s].meteoraQuote = [dex |-> "meteora", output |-> out],
                    ![s].firstQuote = IF @ = NULL THEN "meteora" ELSE @]
    /\ UNCHANGED <<orders, replies, jobs, statusLog, notEngine>>

\* Promise.all resolves once both quotes are in; bestQuote is chosen.  The
\* two quotes are not read again, so the handler's record drops them.
JoinQuotes(s) ==
    /\ Handler(s).pc = "quotes"
    /\ AllResponded(Handler(s))
    /\ slots' = [slots EXCEPT
                    ![s].bestQuote = SelectBest(Handler(s).raydiumQuote,
                                                Handler(s).meteoraQuote),
                    ![s].pc = NextPc(@)]
    /\ UNCHANGED <<orders, replies, jobs, statusLog, notEngine>>

\* await mockDexRouter.executeSwap(bestQuote.dex, order)
ExecuteSwap(s) ==
    /\ Handler(s).pc = "swap"
    /\ \E hash \in TxHashes :
        slots' = [slots EXCEPT ![s].txHash = hash, ![s].pc = NextPc(@)]
    /\ UNCHANGED <<orders, replies, jobs, statusLog, notEngine>>

(***************************************************************************)
(* processOrder, catch block: publish the failure event, rethrow.          *)
(***************************************************************************)
CatchBody(s, delivered) ==
    /\ Handler(s).pc = "catch"
    /\ orders' = CatchStore(orders, OrderOf(s))
    /\ statusLog' = LogStatus(statusLog, orders')
    /\ slots' = [slots EXCEPT
                    ![s].calls = Append(@, FailureEvent(OrderOf(s))),
                    ![s].sent = IF delivered
                                THEN Append(@, FailureEvent(OrderOf(s))) ELSE @,
                    ![s].pc = CatchExit]
    /\ UNCHANGED <<replies, jobs, notEngine>>

\* redis.publish of the failure event resolves.
Catch(s) == CatchBody(s, TRUE)

\* redis.publish of the failure event throws; broadcastProgress drops it.
CatchPublishThrows(s) == CatchBody(s, FALSE)

(***************************************************************************)
(* The handler settles and BullMQ moves the job.                           *)
(***************************************************************************)
\* processOrder returned: the job is completed.
Complete(s) ==
    /\ Handler(s).pc = "done"
    /\ jobs' = [jobs EXCEPT ![Handler(s).job].state = "completed",
                            ![Handler(s).job].attemptsMade = @ + 1]
    /\ slots' = [slots EXCEPT ![s] = Idle]
    /\ UNCHANGED <<orders, replies, statusLog, notEngine>>

\* processOrder threw: the job is delayed for a retry, or failed for good.
Fail(s) ==
    /\ Handler(s).pc = "throw"
    /\ LET j == Handler(s).job
           made == jobs[j].attemptsMade + 1
           retry == RetryAllowed(made)
       IN  jobs' = [jobs EXCEPT
                ![j].attemptsMade = made,
                ![j].state = IF retry THEN "delayed" ELSE "failed",
                ![j].delay = IF retry THEN BackoffDelay(made) ELSE 0,
                ![j].delays = IF retry THEN Append(@, BackoffDelay(made)) ELSE @,
                ![j].failedReason = Handler(s).error]
    /\ slots' = [slots EXCEPT ![s] = Idle]
    /\ UNCHANGED <<orders, replies, statusLog, notEngine>>

\* The delay of a delayed job expires: it is moved back to the wait list.
Promote(j) ==
    /\ IsPromotable(jobs[j].state)
    /\ jobs' = [jobs EXCEPT ![j].state = "waiting", ![j].delay = 0]
    /\ UNCHANGED <<orders, replies, slots, statusLog, notEngine>>

Next ==
    \/ CreateOrder
    \/ \E s \in Slots :
        \/ Fetch(s)
        \/ UpdateProgress(s)
        \/ StoreUpdate(s)
        \/ StepThrows(s)
        \/ Publish(s)
        \/ PublishThrows(s)
        \/ GetRaydiumQuote(s)
        \/ GetMeteoraQuote(s)
        \/ JoinQuotes(s)
        \/ ExecuteSwap(s)
        \/ Catch(s)
        \/ CatchPublishThrows(s)
        \/ Complete(s)
        \/ Fail(s)
    \/ \E j \in 1..Len(jobs) : Promote(j)

Spec == Init /\ [][Next]_vars

(***************************************************************************)
(* The same runs under fair scheduling: as long as the worker or the       *)
(* queue can take a step (a waiting job and a free slot, a handler whose   *)
(* awaited call returns or throws, a delayed job whose delay expires),     *)
(* one of them is taken.  Nothing obliges a request to arrive.             *)
(***************************************************************************)
WorkerNext ==
    \/ \E s \in Slots :
        \/ Fetch(s)
        \/ UpdateProgress(s)
        \/ StoreUpdate(s)
        \/ StepThrows(s)
        \/ Publish(s)
        \/ PublishThrows(s)
        \/ GetRaydiumQuote(s)
        \/ GetMeteoraQuote(s)
        \/ JoinQuotes(s)
        \/ ExecuteSwap(s)
        \/ Catch(s)
        \/ CatchPublishThrows(s)
        \/ Complete(s)
        \/ Fail(s)
    \/ \E j \in 1..Len(jobs) : Promote(j)

SpecFair == Init /\ [][Next]_vars /\ WF_vars(WorkerNext)

(***************************************************************************)
(* The clock advances between direct calls of the service.  The runs that *)
(* go through the controller and the worker happen at one clock reading.   *)
(***************************************************************************)
Tick ==
    /\ incoming = NoRequests
    /\ now < MaxTime
    /\ now' = now + 1
    /\ UNCHANGED <<orders, replies, jobs, slots, statusLog,
                   incoming, service, ordersStore, result, gatewayVars>>

(***************************************************************************)
(* Direct calls of the OrderService, in runs where the controller gets no  *)
(* request.  The build links one of the two variants of the service.       *)
(***************************************************************************)
\* The ids a caller may name: an id above MaxOrders is never in the store.
ServiceIds == 1..(MaxOrders + 1)

\* The bodies createOrder is called with.
ServiceBodies == {body \in Requests \cup SecondRequests : ~IsInvalid(body)}

\* The updates objects updateOrderStatus is called with: none, the fields
\* of the building stage, and a key that is present with the value
\* undefined.
ServiceUpdates ==
    { NoArguments,
      [selectedDex |-> "raydium", outputAmount |-> 1],
      [selectedDex |-> NULL] }

\* The statuses updateOrderStatus is called with.
ServiceStatuses == {"routing", "confirmed"}

\* The store of the linked variant.
Store == IF service = "memory" THEN ordersStore ELSE orders

ServiceCreateOrder(body) ==
    /\ incoming = NoRequests
    /\ Cardinality(DOMAIN Store) < MaxOrders
    /\ LET orderId == uuidv4(Store) IN
        /\ IF service = "memory"
           THEN /\ ordersStore' = MemCreateOrder(ordersStore, orderId, body, now)
                /\ result' = [op |-> "createOrder", orderId |-> orderId,
                              updates |-> NoArguments,
                              ret |-> MemGetOrder(ordersStore', orderId)]
                /\ UNCHANGED orders
           ELSE /\ orders' = createOrder(orders, orderId, body, now)
                /\ result' = [op |-> "createOrder", orderId |-> orderId,
                              updates |-> NoArguments,
                              ret |-> getOrder(orders', orderId)]
                /\ UNCHANGED ordersStore
    /\ UNCHANGED <<replies, jobs, slots, statusLog, incoming, now, service, gatewayVars>>

ServiceGetOrder(orderId) ==
    /\ incoming = NoRequests
    /\ result' = [op |-> "getOrder", orderId |-> orderId,
                  updates |-> NoArguments,
                  ret |-> IF service = "memory"
                          THEN MemGetOrder(ordersStore, orderId)
                          ELSE getOrder(orders, orderId)]
    /\ UNCHANGED <<orders, ordersStore, replies, jobs, slots, statusLog,
                   incoming, now, service, gatewayVars>>

ServiceUpdateOrderStatus(orderId, status, updates) ==
    /\ incoming = NoRequests
    /\ IF service = "memory"
       THEN /\ ordersStore' = MemUpdateOrderStatus(ordersStore, orderId, status, updates, now)
            /\ result' = [op |-> "updateOrderStatus", orderId |-> orderId,
                          updates |-> updates,
                          ret |-> IF orderId \in DOMAIN ordersStore
                                  THEN MemGetOrder(ordersStore', orderId)
                                  ELSE NotFound]
            /\ UNCHANGED orders
       ELSE /\ orders' = DbUpdateOrderStatus(orders, orderId, status, updates, now)
            /\ result' = [op |-> "updateOrderStatus", orderId |-> orderId,
                          updates |-> updates,
                          ret |-> IF orderId \in DOMAIN orders
                                  THEN getOrder(orders', orderId)
                                  ELSE NotFound]
            /\ UNCHANGED ordersStore
    /\ UNCHANGED <<replies, jobs, slots, statusLog, incoming, now, service, gatewayVars>>

(***************************************************************************)
(* The Order Store under two orders: either two create-order requests      *)
(* followed through the worker, no step throwing, or direct calls of one   *)
(* of the two variants of the service.                                     *)
(***************************************************************************)
InitPair ==
    /\ orders = <<>>
    /\ replies = <<>>
    /\ jobs = <<>>
    /\ slots = [s \in Slots |-> Idle]
    /\ statusLog = <<>>
    /\ incoming = [n \in PairRequestNos |-> IF n = 1 THEN Requests ELSE SecondRequests]
    /\ now = 0
    /\ service = "database"
    /\ ordersStore = <<>>
    /\ result = NoResult
    /\ InitGateway

InitService ==
    /\ orders = <<>>
    /\ replies = <<>>
    /\ jobs = <<>>
    /\ slots = [s \in Slots |-> Idle]
    /\ statusLog = <<>>
    /\ incoming = NoRequests
    /\ now = 0
    /\ service \in {"memory", "database"}
    /\ ordersStore = <<>>
    /\ result = NoResult
    /\ InitGateway

InitStore == InitPair \/ InitService

NextStore ==
    \/ CreateOrder
    \/ \E s \in Slots :
        \/ Fetch(s)
        \/ UpdateProgress(s)
        \/ StoreUpdate(s)
        \/ Publish(s)
        \/ GetRaydiumQuote(s)
        \/ GetMeteoraQuote(s)
        \/ JoinQuotes(s)
        \/ ExecuteSwap(s)
        \/ Complete(s)
    \/ Tick
    \/ \E body \in ServiceBodies : ServiceCreateOrder(body)
    \/ \E orderId \in ServiceIds : ServiceGetOrder(orderId)
    \/ \E orderId \in ServiceIds, status \in ServiceStatuses, updates \in ServiceUpdates :
        ServiceUpdateOrderStatus(orderId, status, updates)

SpecStore == InitStore /\ [][NextStore]_vars

(***************************************************************************)
(* OrderController.getOrder: the query surface.  It asks the linked        *)
(* variant of the service for the order and answers with what it gets,     *)
(* or with 404 when it gets nothing.  The worker always writes the orders  *)
(* table; the controller reads the store of the variant it is linked with. *)
(***************************************************************************)
GetOrder(orderId) ==
    /\ result' = [op |-> "GET /orders/:orderId", orderId |-> orderId,
                  updates |-> NoArguments,
                  ret |-> IF service = "memory"
                          THEN MemGetOrder(ordersStore, orderId)
                          ELSE getOrder(orders, orderId)]
    /\ UNCHANGED <<orders, ordersStore, replies, jobs, slots, statusLog,
                   incoming, now, service, gatewayVars>>

\* One create-order request followed through the worker, no step throwing,
\* with fetches of the order at any moment, under either variant.
InitQuery ==
    /\ orders = <<>>
    /\ replies = <<>>
    /\ jobs = <<>>
    /\ slots = [s \in Slots |-> Idle]
    /\ statusLog = <<>>
    /\ incoming = [n \in RequestNos |-> Requests]
    /\ now = 0
    /\ service \in {"memory", "database"}
    /\ ordersStore = <<>>
    /\ result = NoResult
    /\ InitGateway

NextQuery ==
    \/ CreateOrder
    \/ \E s \in Slots :
        \/ Fetch(s)
        \/ UpdateProgress(s)
        \/ StoreUpdate(s)
        \/ Publish(s)
        \/ GetRaydiumQuote(s)
        \/ GetMeteoraQuote(s)
        \/ JoinQuotes(s)
        \/ ExecuteSwap(s)
        \/ Complete(s)
    \/ \E orderId \in ServiceIds : GetOrder(orderId)

SpecQuery == InitQuery /\ [][NextQuery]_vars

(***************************************************************************)
(* The Worker Pool under more jobs than it has handler slots.  The table   *)
(* and the queue start as Concurrency + 1 accepted requests leave them.    *)
(* A handler is followed from its first statement to its return in one     *)
(* step, no step throwing: what the pool sees of a handler is the moment   *)
(* it takes a job and the moment it settles.                               *)
(***************************************************************************)
PoolOrders == Concurrency + 1

\* The body of each of the accepted requests.
PoolBody == CHOOSE body \in Requests : ~IsInvalid(body)

\* The table after the controller has created the orders 1..PoolOrders.
PoolTable == [o \in 1..PoolOrders |-> createOrder(<<>>, o, PoolBody, 0)[o]]

\* What the venues answer in these runs: every order gets the same quotes
\* and the same transaction hash, the runs differ in the scheduling only.
PoolOutputs == {MaxOutput}
PoolHashes == {MaxHash}

InitPool ==
    /\ orders = PoolTable
    /\ replies = [n \in 1..PoolOrders |-> Reply(PoolBody, 201)]
    /\ jobs = [j \in 1..PoolOrders |-> NewJob(JobData(j, PoolBody))]
    /\ slots = [s \in Slots |-> Idle]
    /\ statusLog = LogStatus(<<>>, PoolTable)
    /\ incoming = [n \in 1..PoolOrders |-> {PoolBody}]
    /\ now = 0
    /\ service = "database"
    /\ ordersStore = <<>>
    /\ result = NoResult
    /\ InitGateway

\* processOrder from its first statement to 'return {success: true, ...}',
\* and the job moved to completed: the four stage writes, with the quotes
\* and the transaction hash the venues give.
ProcessOrderReturns(s) ==
    /\ Handler(s).pc = Pcs[1]
    /\ \E r \in PoolOutputs, m \in PoolOutputs, hash \in PoolHashes :
        LET h == [Handler(s) EXCEPT
                    !.bestQuote = SelectBest([dex |-> "raydium", output |-> r],
                                             [dex |-> "meteora", output |-> m]),
                    !.txHash = hash]
            o == OrderOf(s)
            t1 == updateOrderStatus(orders, o, "routing", UpdatesAt("store_routing", h), now)
            t2 == updateOrderStatus(t1, o, "building", UpdatesAt("store_building", h), now)
            t3 == updateOrderStatus(t2, o, "submitted", UpdatesAt("store_submitted", h), now)
            t4 == updateOrderStatus(t3, o, "confirmed", UpdatesAt("store_confirmed", h), now)
        IN  /\ orders' = t4
            /\ statusLog' = LogStatus(LogStatus(LogStatus(LogStatus(statusLog, t1), t2), t3), t4)
            /\ jobs' = [jobs EXCEPT
                    ![Handler(s).job].progress = ProgressAt("progress100"),
                    ![Handler(s).job].written =
                        [status |-> "confirmed",
                         selectedDex |-> h.bestQuote.dex,
                         outputAmount |-> h.bestQuote.output,
                         transactionHash |-> hash],
                    ![Handler(s).job].state = "completed",
                    ![Handler(s).job].attemptsMade = @ + 1]
    /\ slots' = [slots EXCEPT ![s] = Idle]
    /\ UNCHANGED <<replies, notEngine>>

NextPool ==
    \E s \in Slots :
        \/ Fetch(s)
        \/ ProcessOrderReturns(s)

SpecPool == InitPool /\ [][NextPool]_vars

(***************************************************************************)
(* The gateway.  Every handler of the gateway runs to completion before    *)
(* the next one starts (one JavaScript thread), so each is one step.       *)
(***************************************************************************)
\* The SUBSCRIBE command is acknowledged.
SubscribeOk ==
    /\ subscription = "subscribing"
    /\ subscription' = "subscribed"
    /\ UNCHANGED <<channel, clients, sockets, published, routed, arrived, notGateway>>

\* The SUBSCRIBE command fails: the callback logs the error, nothing retries.
SubscribeFails ==
    /\ subscription = "subscribing"
    /\ subscription' = "failed"
    /\ UNCHANGED <<channel, clients, sockets, published, routed, arrived, notGateway>>

\* broadcastProgress in the worker: redis.publish resolves.  Redis hands the
\* message to the subscriptions that exist at that moment and keeps nothing.
BroadcastProgress(status) ==
    /\ published < MaxEvents
    /\ published' = published + 1
    /\ IF subscription = "subscribed"
       THEN /\ channel' = Append(channel,
                                 JSONstringify(ProgressUpdate(published + 1, status)))
            /\ routed' = routed \cup {published + 1}
       ELSE UNCHANGED <<channel, routed>>
    /\ UNCHANGED <<subscription, clients, sockets, arrived, notGateway>>

\* fastify.get('/ws', {websocket: true}, handler): clients.add(ws), then
\* ws.send of the acknowledgment, then the close and error handlers are
\* registered.  Handles connect in the order of their numbers.
Connect(c) ==
    /\ sockets[c].readyState = "connecting"
    /\ \A d \in Handles : d < c => sockets[d].readyState # "connecting"
    /\ clients' = Append(clients, c)
    /\ sockets' = [sockets EXCEPT ![c] =
                      [readyState      |-> "open",
                       received        |-> OnConnectSends(arrived),
                       publishedBefore |-> published,
                       arrivedBefore |-> Len(arrived),
                       failedOn        |-> 0]]
    /\ UNCHANGED <<subscription, channel, published, routed, arrived, notGateway>>

\* The connection of a handle closes; its close event has not fired yet.
SocketCloses(c) ==
    /\ sockets[c].readyState = "open"
    /\ sockets' = [sockets EXCEPT ![c].readyState = "closed"]
    /\ UNCHANGED <<subscription, channel, clients, published, routed, arrived, notGateway>>

\* ws.on('close'): clients.delete(ws)
OnClose(c) ==
    /\ sockets[c].readyState = "closed"
    /\ c \in Members(clients)
    /\ clients' = SelectSeq(clients, LAMBDA d : d # c)
    /\ UNCHANGED <<subscription, channel, sockets, published, routed, arrived, notGateway>>

\* ws.on('error'): clients.delete(ws).  The socket that emits an error is
\* no longer open.
OnError(c) ==
    /\ sockets[c].readyState = "open"
    /\ c \in Members(clients)
    /\ sockets' = [sockets EXCEPT ![c].readyState = "closed"]
    /\ clients' = SelectSeq(clients, LAMBDA d : d # c)
    /\ UNCHANGED <<subscription, channel, published, routed, arrived, notGateway>>

\* redisSubscriber.on('message'): JSON.parse, then broadcast.
OnMessage ==
    /\ channel # <<>>
    /\ LET progressUpdate == JSONparse(Delivered(channel)) IN
       \E throwing \in SUBSET {c \in Members(clients) : sockets[c].readyState = "open"} :
        /\ sockets' = [c \in Handles |->
                [sockets[c] EXCEPT
                    !.received = IF IsSent(clients, sockets, throwing, c)
                                 THEN Append(@, OrderUpdate(progressUpdate)) ELSE @,
                    !.failedOn = IF IsThrown(clients, sockets, throwing, c)
                                 THEN progressUpdate.seq ELSE @]]
        /\ clients' = SelectSeq(clients,
                                LAMBDA c : ~IsDeleted(clients, sockets, throwing, c))
        /\ arrived' = Append(arrived, progressUpdate)
    /\ channel' = Tail(channel)
    /\ UNCHANGED <<subscription, published, routed, notGateway>>

InitOfGateway ==
    /\ orders = <<>>
    /\ replies = <<>>
    /\ jobs = <<>>
    /\ slots = [s \in Slots |-> Idle]
    /\ statusLog = <<>>
    /\ incoming = NoRequests
    /\ now = 0
    /\ service = "database"
    /\ ordersStore = <<>>
    /\ result = NoResult
    /\ InitGateway

NextGateway ==
    \/ SubscribeOk
    \/ SubscribeFails
    \/ \E status \in BusStatuses : BroadcastProgress(status)
    \/ \E c \in Handles :
        \/ Connect(c)
        \/ SocketCloses(c)
        \/ OnClose(c)
        \/ OnError(c)
    \/ OnMessage

SpecGateway == InitOfGateway /\ [][NextGateway]_vars

(***************************************************************************)
(* Auxiliary operators of the properties.                                  *)
(***************************************************************************)
IsPrefix(a, b) ==
    /\ Len(a) <= Len(b)
    /\ \A i \in 1..Len(a) : a[i] = b[i]

StageIndex(status) == CHOOSE i \in 1..Len(Stages) : Stages[i] = status

JobIds == 1..Len(jobs)

\* The (status, progress) pairs of a sequence of events.
Pairs(events) == [i \in 1..Len(events) |-> <<events[i].status, events[i].progress>>]

\* The number of progress=0 events of a sequence of events.
ZeroCount(events) == Cardinality({i \in 1..Len(events) : events[i].progress = 0})

FourStageEvents ==
    << <<"routing", 20>>, <<"building", 40>>, <<"submitted", 60>>, <<"confirmed", 100>> >>

(***************************************************************************)
(* C1: the sequence of distinct statuses the Order Store holds for an      *)
(* order over its lifetime is pending, routing, building, submitted,       *)
(* confirmed: no stage is skipped and none is entered a second time.       *)
(* Stated on every reachable state: the statuses held so far are an        *)
(* initial part of that sequence.  The retry of a job whose attempt got    *)
(* past building enters routing a second time.                             *)
(***************************************************************************)
C1_StatusSequenceExact ==
    \A o \in DOMAIN statusLog : IsPrefix(statusLog[o], Stages)

(***************************************************************************)
(* C2: also across failed attempts and retries, each change of an order's  *)
(* stored status moves it to the immediately following stage; the stored   *)
(* status never moves back.  The first write of a retry sets routing       *)
(* whatever the stored status is.                                          *)
(***************************************************************************)
C2_StatusOnlyAdvances ==
    [][\A o \in DOMAIN orders :
          orders'[o].status # orders[o].status
             => StageIndex(orders'[o].status) = StageIndex(orders[o].status) + 1]_vars

(***************************************************************************)
(* C3: an attempt that reaches its end with no step and no publish having  *)
(* thrown has published exactly (routing, 20), (building, 40),             *)
(* (submitted, 60), (confirmed, 100), in this order; and in every attempt  *)
(* the stage events published so far are in increasing stage order.        *)
(***************************************************************************)
C3_EventsInStageOrder ==
    \A s \in Slots :
        /\ (slots[s].pc = "done" /\ slots[s].sent = slots[s].calls)
              => Pairs(slots[s].sent) = FourStageEvents
        /\ \A i, k \in 1..Len(slots[s].sent) :
              (i < k /\ slots[s].sent[k].progress # 0)
                 => /\ slots[s].sent[i].progress < slots[s].sent[k].progress
                    /\ StageIndex(slots[s].sent[i].status)
                          < StageIndex(slots[s].sent[k].status)

C3_Witness ==
    \E s \in Slots : slots[s].pc = "done" /\ slots[s].sent = slots[s].calls

C5_AttemptsBounded ==
    \A j \in JobIds :
        /\ jobs[j].attemptsStarted <= Attempts
        /\ jobs[j].attemptsMade <= jobs[j].attemptsStarted
        /\ jobs[j].state = "failed"
              => (jobs[j].attemptsStarted = Attempts /\ jobs[j].attemptsMade = Attempts)

C5_Witness ==
    \E j \in JobIds : jobs[j].state = "failed" /\ jobs[j].attemptsStarted = Attempts

(***************************************************************************)
(* C6: the attempt that uses up the attempts leaves the job failed         *)
(* (dead-lettered), and a failed job stays failed: it is never made        *)
(* waiting or active again and no handler is started for it.               *)
(***************************************************************************)
C6_DeadLetterIsFinal ==
    [][\A j \in JobIds :
          /\ jobs[j].state = "failed"
                => (jobs'[j].state = "failed" /\ \A s \in Slots : slots'[s].job # j)
          /\ (jobs[j].state = "active" /\ jobs'[j].state \notin {"active", "completed"}
                /\ jobs'[j].attemptsMade = Attempts)
                => jobs'[j].state = "failed"]_vars

C6_Witness ==
    \E j \in JobIds : jobs[j].state = "failed" /\ \A s \in Slots : ~Busy(s)

(***************************************************************************)
(* C7: when every attempt of a job failed at the same stage, 3 attempts    *)
(* were made, the job is dead-lettered, and the status stored for the      *)
(* order is the one it held when the first attempt failed.                 *)
(***************************************************************************)
C7_SameStageFailure ==
    \A j \in JobIds :
        /\ (jobs[j].attemptsMade = Attempts /\ jobs[j].state # "completed")
              => jobs[j].state = "failed"
        /\ (jobs[j].state = "failed" /\ jobs[j].sameStage)
              => /\ jobs[j].attemptsStarted = Attempts
                 /\ orders[jobs[j].data.orderId].status = jobs[j].firstFailure.status

C7_Witness ==
    \E j \in JobIds :
        /\ jobs[j].state = "failed"
        /\ jobs[j].sameStage
        /\ jobs[j].firstFailure = [stage |-> "building", status |-> "routing"]

(***************************************************************************)
(* C8, as stated: the delay before the k-th retry is base delay x 2^k      *)
(* limited by a cap.                                                       *)
(***************************************************************************)
Caps == {BaseDelay * (2 ^ i) : i \in 0..(Attempts + 1)}

Min(a, b) == IF a <= b THEN a ELSE b

C8_CappedBackoff ==
    \A j \in JobIds :
        \E cap \in Caps :
            \A k \in 1..Len(jobs[j].delays) :
                jobs[j].delays[k] = Min(BaseDelay * (2 ^ k), cap)

(***************************************************************************)
(* C8, amended: the delay before the k-th retry is base delay x 2^(k-1),   *)
(* 2000 ms and then 4000 ms, with no cap; the delays between successive    *)
(* attempts of one job are non-decreasing.                                 *)
(***************************************************************************)
C8_ExponentialBackoff ==
    \A j \in JobIds :
        /\ \A k \in 1..Len(jobs[j].delays) :
              /\ jobs[j].delays[k] = BaseDelay * (2 ^ (k - 1))
              /\ k > 1 => jobs[j].delays[k - 1] <= jobs[j].delays[k]
        /\ jobs[j].state = "delayed"
              => jobs[j].delay = jobs[j].delays[Len(jobs[j].delays)]

C8_Witness ==
    \E j \in JobIds : jobs[j].delays = <<2000, 4000>>

(***************************************************************************)
(* C9, as stated: a failed attempt has published exactly one progress=0    *)
(* event when it re-raises its error.                                      *)
(***************************************************************************)
C9_OneFailureEventPublished ==
    \A s \in Slots : slots[s].pc = "throw" => ZeroCount(slots[s].sent) = 1

(***************************************************************************)
(* C9, amended: when a step raises, the handler hands exactly one          *)
(* progress=0 event to broadcastProgress, as the last event of the         *)
(* attempt, and then re-raises the error; the event is published unless    *)
(* redis.publish itself throws, so at most one is published per failed     *)
(* attempt.  An attempt in which a step raised never ends as a success:    *)
(* every attempt of a completed job but its last was reported as failed.   *)
(***************************************************************************)
C9_FailureEventHandedOnce ==
    /\ \A s \in Slots :
          LET h == slots[s]
          IN  /\ h.pc = "throw"
                    => /\ ZeroCount(h.calls) = 1
                       /\ h.calls[Len(h.calls)] = FailureEvent(OrderOf(s))
                       /\ ZeroCount(h.sent) <= 1
                       /\ h.error \in ProgressPcs \cup StorePcs
              /\ h.pc # "throw" => (ZeroCount(h.calls) = 0 /\ ZeroCount(h.sent) = 0)
              /\ h.pc = "done" => h.error = "none"
    /\ \A j \in JobIds :
          /\ jobs[j].state = "completed"
                => jobs[j].attemptsMade = Len(jobs[j].delays) + 1
          /\ jobs[j].state \in {"delayed", "failed"}
                => jobs[j].failedReason \in ProgressPcs \cup StorePcs

C9_Witness ==
    \E s \in Slots :
        /\ slots[s].pc = "throw"
        /\ ZeroCount(slots[s].sent) = 0
        /\ JobOf(s).attemptsStarted = 2

(***************************************************************************)
(* C10: a publish that throws never fails the pipeline: no handler is      *)
(* ever in its catch block because of a publish, and an attempt in which   *)
(* every publish threw and every other step returned ends with the order   *)
(* confirmed in the store and the job completed, not retried.              *)
(***************************************************************************)
C10_PublishFailureTolerated ==
    /\ \A s \in Slots :
          /\ slots[s].error \notin PubPcs
          /\ (slots[s].pc = "done" /\ slots[s].sent = <<>>)
                => /\ Len(slots[s].calls) = 4
                   /\ orders[OrderOf(s)].status = "confirmed"
    /\ \A j \in JobIds :
          jobs[j].state = "completed"
             => /\ orders[jobs[j].data.orderId].status = "confirmed"
                /\ jobs[j].attemptsMade = Len(jobs[j].delays) + 1

C10_Witness ==
    \E s \in Slots :
        /\ slots[s].pc = "done"
        /\ slots[s].sent = <<>>
        /\ JobOf(s).attemptsStarted = 1

(***************************************************************************)
(* C11: the quote the worker selects has the greatest output of the two    *)
(* quotes, and the venue and output amount the attempt writes to the       *)
(* Order Store at the building stage are those of the selected quote.      *)
(***************************************************************************)
AfterSelection == {Pcs[i] : i \in PcIndex("progress40")..Len(Pcs)}

AfterBuildingWrite == {Pcs[i] : i \in PcIndex("pub_building")..Len(Pcs)}

C11_BestQuoteSelected ==
    \A s \in Slots :
        Busy(s) =>
            /\ slots[s].pc \in AfterSelection
                => /\ slots[s].bestQuote \in {slots[s].raydiumQuote, slots[s].meteoraQuote}
                   /\ slots[s].bestQuote.output >= slots[s].raydiumQuote.output
                   /\ slots[s].bestQuote.output >= slots[s].meteoraQuote.output
            /\ slots[s].pc \in AfterBuildingWrite
                => /\ orders[OrderOf(s)].selectedDex = slots[s].bestQuote.dex
                   /\ orders[OrderOf(s)].outputAmount = slots[s].bestQuote.output

\* raydium quoted less than meteora and meteora's quote is in the table.
C11_Witness ==
    \E s \in Slots :
        /\ Busy(s)
        /\ slots[s].pc = "pub_building"
        /\ slots[s].raydiumQuote.output < slots[s].meteoraQuote.output
        /\ orders[OrderOf(s)].selectedDex = "meteora"
        /\ orders[OrderOf(s)].outputAmount = slots[s].meteoraQuote.output

(***************************************************************************)
(* C12: when both venues quote the same output, raydium is selected,       *)
(* whichever quote request responded first.                                *)
(***************************************************************************)
C12_TieGoesToRaydium ==
    \A s \in Slots :
        (/\ Busy(s)
         /\ slots[s].pc \in AfterSelection
         /\ slots[s].raydiumQuote.output = slots[s].meteoraQuote.output)
            => slots[s].bestQuote = slots[s].raydiumQuote

\* A tie was decided for raydium in an attempt where meteora responded first.
C12_Witness ==
    \E s \in Slots :
        /\ Busy(s)
        /\ slots[s].pc = "progress40"
        /\ slots[s].firstQuote = "meteora"
        /\ slots[s].raydiumQuote.output = slots[s].meteoraQuote.output
        /\ slots[s].bestQuote.dex = "raydium"

(***************************************************************************)
(* C17: a create-order request whose amount is <= 0 or missing, or whose   *)
(* fromToken or toToken is missing or empty, is answered 400 and has no    *)
(* side effect: the Order Store and the queue are as they were.            *)
(***************************************************************************)
LastReply(r) == r[Len(r)]

C17_RejectedNoSideEffect ==
    [][(/\ Len(replies') = Len(replies) + 1
        /\ \/ LastReply(replies').body.amount <= 0
           \/ LastReply(replies').body.fromToken \in {NULL, ""}
           \/ LastReply(replies').body.toToken \in {NULL, ""})
          => /\ LastReply(replies').code = 400
             /\ orders' = orders
             /\ ordersStore' = ordersStore
             /\ jobs' = jobs]_vars

\* A request with a negative amount was rejected after an order was
\* accepted: the store holds that one order, the queue that one job.
C17_Witness ==
    /\ Len(replies) = 2
    /\ replies[1].code = 201
    /\ replies[2].body.amount < 0
    /\ replies[2].code = 400
    /\ DOMAIN orders = {1}
    /\ Len(jobs) = 1

C19_UnknownIdNotFound ==
    [][(/\ result'.op \in {"updateOrderStatus", "getOrder"}
        /\ result'.orderId \notin DOMAIN Store)
          => /\ result'.ret = NotFound
             /\ orders' = orders
             /\ ordersStore' = ordersStore]_vars

\* updateOrderStatus of an unknown id returned not-found on a store that
\* holds orders.
C19_Witness ==
    /\ result.op = "updateOrderStatus"
    /\ result.orderId \notin DOMAIN Store
    /\ result.ret = NotFound
    /\ Cardinality(DOMAIN Store) = MaxOrders

(***************************************************************************)
(* C20: a step that updates an order changes one order only, and in it     *)
(* only status, updated-at and the fields the update provides; every other *)
(* order is as it was.  This holds for the updates two worker slots make   *)
(* for two orders in any interleaving, and for both variants of the        *)
(* service.                                                                *)
(***************************************************************************)
\* The slots whose handler performs its store update in this step.
Writers == {s \in Slots : slots[s].pc \in StorePcs /\ slots'[s].pc # slots[s].pc}

\* The keys the update of this step provides for order o.
Provided(o) ==
    IF Writers # {}
    THEN {key \in {"selectedDex", "outputAmount", "transactionHash"} :
            \E s \in Writers :
                /\ OrderOf(s) = o
                /\ UpdatesAt(slots[s].pc, slots[s])[key] # NoUpdates[key]}
    ELSE IF result'.op = "updateOrderStatus" /\ result'.orderId = o
         THEN DOMAIN result'.updates
         ELSE {}

\* The orders of a store whose entry this step changes.
Changed(before, after) ==
    {o \in DOMAIN before : o \notin DOMAIN after \/ after[o] # before[o]}

FrameOf(before, after) ==
    /\ Cardinality(Changed(before, after)) <= 1
    /\ \A o \in Changed(before, after) :
        /\ o \in DOMAIN after
        /\ \/ \E s \in Writers : OrderOf(s) = o
           \/ Writers = {} /\ result'.op = "updateOrderStatus" /\ result'.orderId = o
        /\ \A key \in DOMAIN before[o] \ ({"status", "updatedAt"} \cup Provided(o)) :
              after[o][key] = before[o][key]

C20_UpdateFrame ==
    [][FrameOf(orders, orders') /\ FrameOf(ordersStore, ordersStore')]_vars

\* Two slots hold the jobs of two orders; both orders have been updated,
\* to different stages, and each row still has its own token pair.
C20_Witness ==
    \E s, t \in Slots :
        /\ Busy(s) /\ Busy(t)
        /\ OrderOf(s) = 1 /\ OrderOf(t) = 2
        /\ orders[1].status = "building"
        /\ orders[2].status = "submitted"
        /\ orders[1].fromToken = "SOL"
        /\ orders[2].fromToken = "USDC"
        /\ orders[1].transactionHash = NoNumber
        /\ orders[2].transactionHash # NoNumber

(***************************************************************************)
(* Auxiliary operators of the gateway's properties.                        *)
(***************************************************************************)
\* The handles the gateway has been handed.
Connections == {c \in Handles : sockets[c].readyState # "connecting"}

\* The publish ordinals of the progress events a handle has been sent.
SeqsSent(c) ==
    {sockets[c].received[i].seq :
        i \in {k \in 1..Len(sockets[c].received) :
                  sockets[c].received[k].type = "order-update"}}

\* The publish ordinals of the bus messages in flight to the gateway.
SeqsInFlight == {JSONparse(channel[i]).seq : i \in 1..Len(channel)}

\* A handle that is open and to which no send has thrown.
Healthy(c) == sockets[c].readyState = "open" /\ sockets[c].failedOn = 0

(***************************************************************************)
(* C13 as the spec states it: a handle is never sent an event that was     *)
(* published before it connected.                                          *)
(***************************************************************************)
C13_NothingPublishedEarlier ==
    \A c \in Connections :
        \A n \in SeqsSent(c) : n > sockets[c].publishedBefore

(***************************************************************************)
(* C13, amended: a handle is never sent an event whose bus message the     *)
(* gateway handled before the handle was added to the client set; the      *)
(* gateway replays nothing.                                                *)
(***************************************************************************)
C13_NothingArrivedEarlier ==
    \A c \in Connections :
        \A i \in 1..sockets[c].arrivedBefore : arrived[i].seq \notin SeqsSent(c)

\* A handle that connected after the gateway had handled an event was sent
\* a later event and not the earlier one.
C13_Witness ==
    \E c \in Connections :
        /\ sockets[c].arrivedBefore >= 1
        /\ SeqsSent(c) # {}
        /\ arrived[1].seq \notin SeqsSent(c)

(***************************************************************************)
(* C14 as the spec states it: every event published since a handle was     *)
(* added to the client set is, while the handle stays open, in flight to   *)
(* the gateway or already sent to the handle.                              *)
(***************************************************************************)
C14_PublishedIsNotLost ==
    \A c \in Connections :
        Healthy(c) =>
            \A n \in (sockets[c].publishedBefore + 1)..published :
                n \in SeqsInFlight \cup SeqsSent(c)

(***************************************************************************)
(* C14, amended: a handle that is open and to which no send has thrown     *)
(* stays in the client set, and every event published since it was added,  *)
(* at a moment the gateway's subscription was active, is in flight to the  *)
(* gateway or already sent to the handle: it is sent when the gateway      *)
(* handles its bus message.                                                *)
(***************************************************************************)
C14_RoutedIsNotLost ==
    \A c \in Connections :
        Healthy(c) =>
            /\ c \in Members(clients)
            /\ \A n \in routed :
                  n > sockets[c].publishedBefore => n \in SeqsInFlight \cup SeqsSent(c)

\* Every event was published after the handle connected and was sent to it.
C14_Witness ==
    \E c \in Connections :
        /\ Healthy(c)
        /\ sockets[c].publishedBefore = 0
        /\ published = MaxEvents
        /\ SeqsSent(c) = 1..MaxEvents

(***************************************************************************)
(* C15: the first message a handle is sent is the 'connected'              *)
(* acknowledgment, it is sent once, and every progress event comes after   *)
(* it, also when the bus message of an event was in flight while the       *)
(* handle connected.                                                       *)
(***************************************************************************)
C15_ConnectedComesFirst ==
    \A c \in Connections :
        /\ Len(sockets[c].received) >= 1
        /\ sockets[c].received[1] = Connected
        /\ \A i \in 2..Len(sockets[c].received) :
              sockets[c].received[i].type = "order-update"

\* A handle connected while the bus message of an event was in flight and
\* was sent that event after the acknowledgment.
C15_Witness ==
    \E c \in Connections :
        /\ Len(sockets[c].received) >= 2
        /\ sockets[c].received[1] = Connected
        /\ sockets[c].received[2].type = "order-update"
        /\ sockets[c].received[2].seq <= sockets[c].publishedBefore

(***************************************************************************)
(* C16: in one broadcast, a handle of the set that is not open, or whose   *)
(* send throws, is removed from the set and is sent nothing; the broadcast *)
(* completes, and every other handle of the set is sent the event and      *)
(* stays in the set.                                                       *)
(***************************************************************************)
C16_BroadcastIsolatesFailures ==
    [][Len(arrived') = Len(arrived) + 1 =>
          \A c \in Members(clients) :
              IF \/ sockets[c].readyState # "open"
                 \/ sockets'[c].failedOn # sockets[c].failedOn
              THEN /\ c \notin Members(clients')
                   /\ sockets'[c].received = sockets[c].received
              ELSE /\ c \in Members(clients')
                   /\ sockets'[c].received =
                          Append(sockets[c].received,
                                 OrderUpdate(arrived'[Len(arrived')]))]_vars

\* In one broadcast the send to the first handle threw, and the second
\* handle was sent the event.
C16_Witness ==
    \E c, d \in Connections :
        /\ c < d
        /\ sockets[c].failedOn # 0
        /\ c \notin Members(clients)
        /\ d \in Members(clients)
        /\ sockets[c].failedOn \in SeqsSent(d)

(***************************************************************************)
(* C22: the optional fields of an order are write-once: once               *)
(* selectedDex, outputAmount or transactionHash holds a value, no later    *)
(* write, and no retry of the job, changes that value.                     *)
(***************************************************************************)
C22_WriteOnce ==
    [][\A o \in DOMAIN orders :
          /\ orders[o].selectedDex # NULL
                => orders'[o].selectedDex = orders[o].selectedDex
          /\ orders[o].outputAmount # NoNumber
                => orders'[o].outputAmount = orders[o].outputAmount
          /\ orders[o].transactionHash # NoNumber
                => orders'[o].transactionHash = orders[o].transactionHash]_vars

(***************************************************************************)
(* C23: once an optional field of an order is set, no call of              *)
(* updateOrderStatus clears it, in either variant of the store: a call     *)
(* that provides no fields, or a field whose value is undefined, leaves    *)
(* the field with a value.                                                 *)
(***************************************************************************)
NeverCleared(before, after) ==
    \A o \in DOMAIN before :
        /\ o \in DOMAIN after
        /\ before[o].selectedDex # NULL => after[o].selectedDex # NULL
        /\ before[o].outputAmount # NoNumber => after[o].outputAmount # NoNumber
        /\ before[o].transactionHash # NoNumber => after[o].transactionHash # NoNumber

C23_NeverCleared ==
    [][NeverCleared(orders, orders') /\ NeverCleared(ordersStore, ordersStore')]_vars

(***************************************************************************)
(* C21: a fetch of an order through the query surface returns what the     *)
(* worker has recorded for it: once the worker has written status S (and   *)
(* the venue, output amount and settlement reference) for an order created *)
(* through the submission surface, a fetch of that order returns them.     *)
(***************************************************************************)
IsFetch == result' # result /\ result'.op = "GET /orders/:orderId"

C21_FetchReturnsWorkerWrites ==
    [][IsFetch =>
        \A j \in 1..Len(jobs) :
            (jobs[j].data.orderId = result'.orderId /\ jobs[j].written.status # "none")
            => /\ result'.ret.found
               /\ result'.ret.order.status = jobs[j].written.status
               /\ Field(result'.ret.order, "selectedDex", NULL)
                    = jobs[j].written.selectedDex
               /\ Field(result'.ret.order, "outputAmount", NoNumber)
                    = jobs[j].written.outputAmount
               /\ Field(result'.ret.order, "transactionHash", NoNumber)
                    = jobs[j].written.transactionHash]_vars

(***************************************************************************)
(* C24: the Worker Pool never runs more than 5 handlers at the same time:  *)
(* at most Concurrency jobs are active, each in a handler slot of its own; *)
(* and a slot that holds a job keeps it until the handler has settled (the *)
(* job is completed, delayed for a retry or failed) before it takes        *)
(* another job.                                                            *)
(***************************************************************************)
ActiveJobs == {j \in 1..Len(jobs) : jobs[j].state = "active"}
BusySlots == {s \in Slots : Busy(s)}

IsTerminal(j) == jobs[j].state \in {"completed", "failed"}

C25_EveryJobTerminates ==
    \A j \in RequestNos : (j <= Len(jobs)) ~> (j <= Len(jobs) /\ IsTerminal(j))

\* A job that failed twice, was delayed twice and completed in its third attempt.
C25_Witness ==
    \E j \in 1..Len(jobs) :
        /\ jobs[j].state = "completed"
        /\ jobs[j].attemptsMade = Attempts
        /\ Len(jobs[j].delays) = Attempts - 1

(***************************************************************************)
(* C26: an accepted order whose job has an attempt in which no step fails  *)
(* (no awaited call of the handler throws, a publish included) ends up     *)
(* confirmed: at the end of that attempt the store holds confirmed for     *)
(* the order, the last event published is (confirmed, 100) and the job's   *)
(* progress is 100; under fair scheduling the job is then moved to         *)
(* completed, and a completed job's order is confirmed in the store.       *)
(***************************************************************************)
\* The handler in slot s is at the end of an attempt in which nothing threw.
CleanAttemptEnds(s) ==
    /\ Handler(s).pc = "done"
    /\ Handler(s).sent = Handler(s).calls

IsSuccess(j) ==
    /\ jobs[j].state = "completed"
    /\ jobs[j].progress = 100
    /\ orders[jobs[j].data.orderId].status = "confirmed"

C26_CleanAttemptConfirms ==
    /\ [](\A s \in Slots :
            CleanAttemptEnds(s)
            => /\ orders[OrderOf(s)].status = "confirmed"
               /\ JobOf(s).progress = 100
               /\ Len(Handler(s).sent) = 4
               /\ Handler(s).sent[4].status = "confirmed"
               /\ Handler(s).sent[4].progress = 100
               /\ Handler(s).sent[4].orderId = OrderOf(s))
    /\ [](\A j \in 1..Len(jobs) : jobs[j].state = "completed" => IsSuccess(j))
    /\ \A j \in RequestNos :
            (\E s \in Slots : slots[s].job = j /\ CleanAttemptEnds(s))
            ~> (j <= Len(jobs) /\ IsSuccess(j))

\* The third attempt of a job is the one in which nothing throws.
C26_Witness ==
    \E s \in Slots :
        /\ CleanAttemptEnds(s)
        /\ JobOf(s).attemptsMade = Attempts - 1
        /\ JobOf(s).firstFailure # NoFailure

(***************************************************************************)
(* C27: every attempt of a job, the first one and every retry, runs the    *)
(* stage sequence from its first statement, whatever the previous attempt  *)
(* had reached: a handler that takes a job starts before the routing       *)
(* write with no quote, no selection and no transaction hash of an         *)
(* earlier attempt, and from there it only moves to the next statement,    *)
(* to the catch block or out of the handler.                               *)
(***************************************************************************)
StartsAfresh(s) ==
    slots'[s] = [Idle EXCEPT !.job = slots'[s].job, !.pc = "progress20"]

C27_AttemptStartsAtRouting ==
    [][\A s \in Slots :
        /\ (~Busy(s) /\ slots'[s].pc # "idle") => StartsAfresh(s)
        /\ (Busy(s) /\ slots'[s].pc # slots[s].pc)
            => \/ slots'[s].pc \in {"catch", "throw", "idle"}
               \/ /\ slots[s].pc \in {Pcs[i] : i \in 1..(Len(Pcs) - 1)}
                  /\ slots'[s].pc = NextPc(slots[s].pc)
        /\ (Busy(s) /\ slots'[s].pc = "store_building")
            => Handler(s).raydiumQuote # NoQuote /\ Handler(s).meteoraQuote # NoQuote]_vars

\* The second attempt has written routing over submitted and holds a fresh
\* quote, after a first attempt that failed in the confirmed stage.
C27_Witness ==
    \E s \in Slots :
        /\ Handler(s).pc = "quotes"
        /\ JobOf(s).attemptsMade = 1
        /\ JobOf(s).firstFailure.stage = "confirmed"
        /\ Handler(s).raydiumQuote # NoQuote
        /\ orders[OrderOf(s)].status = "routing"
        /\ orders[OrderOf(s)].transactionHash # NoNumber

(***************************************************************************)
(* C28: within one attempt the routing stage waits for both venues: the    *)
(* building status is not written and the building event not published     *)
(* before both the raydium and the meteora quote request of that attempt   *)
(* have responded.                                                         *)
(***************************************************************************)
\* The handler has issued the building write in this attempt.
BuildingWritten(h) ==
    \/ h.pc \in {Pcs[i] : i \in (PcIndex("store_building") + 1)..Len(Pcs)}
    \/ h.error \in {Pcs[i] : i \in (PcIndex("store_building") + 1)..Len(Pcs)}

BuildingHanded(h) == \E i \in 1..Len(h.calls) : h.calls[i].status = "building"

C28_BuildingAfterBothQuotes ==
    /\ [](\A s \in Slots :
            (BuildingWritten(Handler(s)) \/ BuildingHanded(Handler(s)))
            => Handler(s).raydiumQuote # NoQuote /\ Handler(s).meteoraQuote # NoQuote)
    /\ [][\A s \in Slots :
            (Handler(s).pc = "quotes" /\ slots'[s].pc = NextPc("quotes"))
            => Handler(s).raydiumQuote # NoQuote /\ Handler(s).meteoraQuote # NoQuote]_vars

\* A retry has published building; meteora answered first in this attempt.
C28_Witness ==
    \E s \in Slots :
        /\ BuildingHanded(Handler(s))
        /\ Handler(s).firstQuote = "meteora"
        /\ JobOf(s).attemptsMade >= 1
        /\ orders[OrderOf(s)].status = "building"

(***************************************************************************)
(* C29: for each stage of an attempt the store is updated to the stage's   *)
(* status before the stage's progress event is published: when an event    *)
(* with status S in {routing, building, submitted, confirmed} is handed to *)
(* the bus, the store holds S for the order, written in that attempt, and  *)
(* as long as the attempt lasts the store is at S or at a later stage.     *)
(***************************************************************************)
\* The stage events the handler in slot s has handed to the bus so far.
StageCalls(h) == {i \in 1..Len(h.calls) : h.calls[i].progress # 0}

C29_StoreBeforeEvent ==
    /\ [][\A s \in Slots :
            (/\ Busy(s)
             /\ Len(slots'[s].calls) = Len(slots[s].calls) + 1
             /\ slots'[s].calls[Len(slots'[s].calls)].progress # 0)
            => /\ orders[OrderOf(s)].status = slots'[s].calls[Len(slots'[s].calls)].status
               /\ JobOf(s).written.status = orders[OrderOf(s)].status
               /\ Handler(s).pc \in PubPcs
               /\ PcIndex("store_" \o orders[OrderOf(s)].status) < PcIndex(Handler(s).pc)
               /\ orders' = orders]_vars
    /\ [](\A s \in Slots : \A i \in StageCalls(Handler(s)) :
            /\ orders[OrderOf(s)].status \in {Stages[k] : k \in 1..Len(Stages)}
            /\ StageIndex(Handler(s).calls[i].status)
                 <= StageIndex(orders[OrderOf(s)].status))

\* A retry publishes routing for an order that had reached submitted: the
\* retry has written routing before.
C29_Witness ==
    \E s \in Slots :
        /\ Handler(s).pc = "quotes"
        /\ Len(Handler(s).sent) = 1
        /\ Handler(s).sent[1].status = "routing"
        /\ JobOf(s).firstFailure.status = "submitted"
        /\ orders[OrderOf(s)].status = "routing"

(***************************************************************************)
(* C30: the building event of an attempt carries the selected venue and    *)
(* the output amount the attempt wrote to the store, and the submitted     *)
(* event carries the settlement reference the attempt wrote to the store.  *)
(***************************************************************************)
C30_EventCarriesStoredFields ==
    \A s \in Slots : \A i \in StageCalls(Handler(s)) :
        LET e == Handler(s).calls[i]
            row == orders[OrderOf(s)]
        IN  /\ e.orderId = OrderOf(s)
            /\ e.status = "building"
                => /\ e.data.selectedDex = row.selectedDex
                   /\ e.data.outputAmount = row.outputAmount
                   /\ e.data.selectedDex = JobOf(s).written.selectedDex
                   /\ e.data.outputAmount = JobOf(s).written.outputAmount
                   /\ e.data.selectedDex # NULL
            /\ e.status = "submitted"
                => /\ e.data.transactionHash = row.transactionHash
                   /\ e.data.transactionHash = JobOf(s).written.transactionHash
                   /\ e.data.transactionHash # NoNumber

\* A retry has published building and submitted with a venue and a hash
\* other than the ones other attempts could have left in the row.
C30_Witness ==
    \E s \in Slots :
        /\ Busy(s)
        /\ JobOf(s).attemptsMade >= 1
        /\ Len(Handler(s).sent) >= 3
        /\ Handler(s).sent[2].data.selectedDex = "meteora"
        /\ Handler(s).sent[3].data.transactionHash = MaxHash
        /\ Handler(s).raydiumQuote.output < Handler(s).meteoraQuote.output

(***************************************************************************)
(* C39: after a create-order request has returned, with success or with    *)
(* an error, every order in the store has exactly one job in the queue     *)
(* that carries its id: no order is left at pending without a job.         *)
(***************************************************************************)
JobsOf(orderId) == {j \in 1..Len(jobs) : jobs[j].data.orderId = orderId}

C39_EveryOrderHasOneJob ==
    \A o \in DOMAIN orders : Cardinality(JobsOf(o)) = 1

(***************************************************************************)
(* C33: the failure path of processOrder writes nothing to the store:      *)
(* from the moment a step throws until the job is delayed or failed, the   *)
(* stored order does not change, and it is the one the last stage write    *)
(* that succeeded has recorded.                                            *)
(***************************************************************************)
\* The stage writes of the try block that come before the step at pc.
WritesBefore(pc) == {i \in 1..(PcIndex(pc) - 1) : Pcs[i] \in StorePcs}

\* The status the last of them wrote.
LastWritten(pc) ==
    StatusAt(Pcs[CHOOSE i \in WritesBefore(pc) : \A k \in WritesBefore(pc) : k <= i])

C33_CatchWritesNothing ==
    /\ [][\A s \in Slots :
            (Handler(s).pc \in {"catch", "throw"}) => orders' = orders]_vars
    /\ [](\A s \in Slots :
            (Handler(s).pc \in {"catch", "throw"})
            => /\ orders[OrderOf(s)].status = JobOf(s).written.status
                  \/ (JobOf(s).written.status = "none"
                      /\ orders[OrderOf(s)].status = "pending")
               /\ orders[OrderOf(s)].selectedDex = JobOf(s).written.selectedDex
               /\ orders[OrderOf(s)].outputAmount = JobOf(s).written.outputAmount
               /\ orders[OrderOf(s)].transactionHash = JobOf(s).written.transactionHash
               /\ WritesBefore(Handler(s).error) # {}
                    => orders[OrderOf(s)].status = LastWritten(Handler(s).error))

\* The attempt threw after its building write; the failure event is out and
\* the error is about to reach the queue.
C33_Witness ==
    \E s \in Slots :
        /\ Handler(s).pc = "throw"
        /\ Handler(s).error = "progress60"
        /\ Len(Handler(s).sent) = 3
        /\ Handler(s).sent[3].progress = 0
        /\ orders[OrderOf(s)].status = "building"
        /\ orders[OrderOf(s)].selectedDex = "meteora"

(***************************************************************************)
(* C34: whenever a job is completed, the order named in its payload is in  *)
(* the store the worker writes, with status confirmed and with selected    *)
(* venue, output amount and settlement reference set: the handler never    *)
(* reports success for an order id that store does not hold.               *)
(***************************************************************************)
C34_CompletedMeansConfirmed ==
    \A j \in 1..Len(jobs) :
        jobs[j].state = "completed"
        => /\ jobs[j].data.orderId \in DOMAIN orders
           /\ orders[jobs[j].data.orderId].status = "confirmed"
           /\ orders[jobs[j].data.orderId].selectedDex # NULL
           /\ orders[jobs[j].data.orderId].outputAmount # NoNumber
           /\ orders[jobs[j].data.orderId].transactionHash # NoNumber

(***************************************************************************)
(* C35: whenever a job is dead-lettered (failed for good), the order named *)
(* in its payload is not confirmed in the store and never was, and no      *)
(* (confirmed, 100) event was published for it: an attempt that hands the  *)
(* confirmed event to the bus can only end by completing the job, and a    *)
(* completed job stays completed.                                          *)
(***************************************************************************)
HeldStatuses(o) == {statusLog[o][i] : i \in 1..Len(statusLog[o])}

ConfirmedHanded(h) ==
    \E i \in 1..Len(h.calls) : h.calls[i].status = "confirmed"

C36_FieldsFollowStatus ==
    \A o \in DOMAIN orders :
        /\ orders[o].status \in {"building", "submitted", "confirmed"}
            => orders[o].selectedDex # NULL /\ orders[o].outputAmount # NoNumber
        /\ orders[o].status \in {"submitted", "confirmed"}
            => orders[o].transactionHash # NoNumber

\* A retry has brought the order to submitted again.
C36_Witness ==
    \E s \in Slots :
        /\ Handler(s).pc = "pub_submitted"
        /\ JobOf(s).attemptsMade >= 1
        /\ orders[OrderOf(s)].status = "submitted"
        /\ orders[OrderOf(s)].transactionHash = Handler(s).txHash
        /\ orders[OrderOf(s)].selectedDex = Handler(s).bestQuote.dex

C38_EventStatusIsStoreStatus ==
    [][\A s \in Slots :
        (Busy(s) /\ Len(slots'[s].calls) = Len(slots[s].calls) + 1)
        => slots'[s].calls[Len(slots'[s].calls)].status
             = orders[OrderOf(s)].status]_vars

(***************************************************************************)
(* C31: handles are added and removed between delivery passes and removed  *)
(* by the pass itself, and every pass is still exact: the client set never *)
(* holds a handle twice; in a pass every handle that is in the set and     *)
(* open before and after it is sent the event exactly once, no handle is   *)
(* sent it twice, a handle outside the set is sent nothing, no handle is   *)
(* added, and the pass ends with no handle in the set that is not open.    *)
(***************************************************************************)
IsPass == Len(arrived') = Len(arrived) + 1

C31_PassIsExact ==
    /\ [](\A i, k \in 1..Len(clients) : clients[i] = clients[k] => i = k)
    /\ [][IsPass =>
            /\ \A c \in Handles :
                /\ Len(sockets'[c].received) <= Len(sockets[c].received) + 1
                /\ (/\ c \in Members(clients)
                    /\ IsOpen(sockets[c].readyState)
                    /\ c \in Members(clients'))
                    => sockets'[c].received =
                          Append(sockets[c].received,
                                 OrderUpdate(arrived'[Len(arrived')]))
                /\ (c \in Members(clients) /\ IsOpen(sockets[c].readyState))
                    => \/ c \in Members(clients')
                       \/ sockets'[c].failedOn = arrived'[Len(arrived')].seq
                /\ c \notin Members(clients)
                    => /\ sockets'[c].received = sockets[c].received
                       /\ c \notin Members(clients')
            /\ \A c \in Members(clients') : IsOpen(sockets'[c].readyState)
            /\ clients' = SelectSeq(clients, LAMBDA c : c \in Members(clients'))]_vars

\* The first handle of the set had closed and is out of the set; the handle
\* behind it has been sent every event that arrived since it connected, and
\* the first handle at least one event less.
C31_Witness ==
    \E c, d \in Connections :
        /\ c < d
        /\ sockets[c].readyState = "closed"
        /\ sockets[c].failedOn = 0
        /\ c \notin Members(clients)
        /\ d \in Members(clients)
        /\ Healthy(d)
        /\ sockets[d].arrivedBefore = 0
        /\ Len(arrived) = MaxEvents
        /\ SeqsSent(d) = {arrived[i].seq : i \in 1..Len(arrived)}
        /\ SeqsSent(c) # SeqsSent(d)

(***************************************************************************)
(* C32: each published progress event is delivered to a given subscriber   *)
(* at most once, and a subscriber receives the events in the order in      *)
(* which the worker published them: the publish ordinals of the progress   *)
(* events a handle has been sent increase strictly.                        *)
(***************************************************************************)
\* The positions of the progress events among the frames a handle was sent.
UpdatesSent(c) ==
    {i \in 1..Len(sockets[c].received) : sockets[c].received[i].type = "order-update"}

C32_AtMostOnceInOrder ==
    \A c \in Handles :
        \A i, k \in UpdatesSent(c) :
            i < k => sockets[c].received[i].seq < sockets[c].received[k].seq

\* A subscriber that stayed connected has been sent every event, the first
\* published first, while another handle got the last one only.
C32_Witness ==
    \E c, d \in Handles :
        /\ Len(sockets[c].received) = 1 + MaxEvents
        /\ \A i \in 1..MaxEvents : sockets[c].received[i + 1].seq = i
        /\ sockets[c].readyState = "open"
        /\ SeqsSent(d) = {MaxEvents}

====
